---- MODULE Spec2Model ----
(***************************************************************************)
(* nixos-update-status: one invocation of the tool reads the remote        *)
(* channel revision, the local system revision and the persisted           *)
(* UpdateState, computes the successor UpdateState, saves it when it       *)
(* changed, and prints one line.  The state file is modelled byte for      *)
(* byte: save() writes the nanoserde binary encoding, load() reads the     *)
(* file with fs::read_to_string (which demands valid UTF-8) and decodes.   *)
(***************************************************************************)
EXTENDS Integers, Sequences, FiniteSets

\* ------------------------------------------------------------------ bounds

\* Number of distinct revision identifiers the remote and local side draw from.
NumRevs == 2

\* The most bytes a write of the state file that fails half-way leaves behind.
MaxTorn == 2

\* The longest chain of consecutive out-of-sync invocations whose expected
\* missed-update count is tracked by the observer variable chain.
MaxChain == 130

\* ------------------------------------------------------- program constants

\* type MissedUpdates = u32: the counter is four bytes wide.  A count is kept
\* as its four little-endian bytes, so that every u32 value is representable.
U32Bytes == 4

\* The bytes of a u64 (nanoserde writes a usize as a u64).
U64Bytes == 8

\* The bytes of a u16 (nanoserde writes an enum's variant index as a u16).
U16Bytes == 2

\* ---------------------------------------------------------------- records

\* enum UpdateState { Synced, Unsynced(MissedUpdates, Revision) }
Synced == [tag |-> "Synced"]

Unsynced(missed, rev) == [tag |-> "Unsynced", missed |-> missed, rev |-> rev]

IsUnsynced(s) == s.tag = "Unsynced"

\* impl Default for UpdateState
DefaultState == Synced

\* Result<T>: Ok(v) or Err
Ok(v) == [ok |-> TRUE, val |-> v]

Err == [ok |-> FALSE]

\* Result::unwrap_or_default
UnwrapOrDefault(r) == IF r.ok THEN r.val ELSE DefaultState

\* ------------------------------------------------------------------ bytes

\* The i-th revision identifier, as the bytes of a one-letter text ("a", "b", ...).
Rev(i) == <<96 + i>>

Revs == {Rev(i) : i \in 1..NumRevs}

\* n (below 2^31) as k little-endian bytes (nanoserde writes integers in native
\* byte order, little-endian on the supported targets).
ToLE(n, k) ==
    SubSeq([i \in 1..k |-> IF i > 4 THEN 0 ELSE (n \div (256 ^ (i - 1))) % 256], 1, k)

\* The number a little-endian byte sequence of at most three bytes stands for.
RECURSIVE FromLE(_)
FromLE(b) == IF b = <<>> THEN 0 ELSE Head(b) + 256 * FromLE(Tail(b))

\* A u32 count from a small number, and the u32 constants the program uses.
U32(n) == ToLE(n, U32Bytes)

U32Zero == SubSeq([i \in 1..U32Bytes |-> 0], 1, U32Bytes)

U32Max == SubSeq([i \in 1..U32Bytes |-> 255], 1, U32Bytes)

\* b + 1 on four little-endian bytes, wrapping at 2^32 (u32::wrapping_add).
WrappingInc(b) ==
    SubSeq([i \in 1..U32Bytes |->
               IF \A j \in 1..(i - 1) : b[j] = 255 THEN (b[i] + 1) % 256 ELSE b[i]],
           1, U32Bytes)

\* Length of the UTF-8 scalar value that starts at d[i], or 0 when the bytes
\* from d[i] are not a well-formed UTF-8 sequence (core::str::from_utf8's rules:
\* no overlong forms, no surrogates, nothing above U+10FFFF).
Utf8Width(d, i) ==
    LET n  == Len(d)
        b0 == d[i]
        C(j, lo, hi) == i + j <= n /\ d[i + j] >= lo /\ d[i + j] <= hi
    IN  IF b0 < 128 THEN 1
        ELSE IF b0 >= 194 /\ b0 <= 223 THEN (IF C(1, 128, 191) THEN 2 ELSE 0)
        ELSE IF b0 = 224 THEN (IF C(1, 160, 191) /\ C(2, 128, 191) THEN 3 ELSE 0)
        ELSE IF b0 = 237 THEN (IF C(1, 128, 159) /\ C(2, 128, 191) THEN 3 ELSE 0)
        ELSE IF b0 >= 225 /\ b0 <= 239
             THEN (IF C(1, 128, 191) /\ C(2, 128, 191) THEN 3 ELSE 0)
        ELSE IF b0 = 240
             THEN (IF C(1, 144, 191) /\ C(2, 128, 191) /\ C(3, 128, 191) THEN 4 ELSE 0)
        ELSE IF b0 >= 241 /\ b0 <= 243
             THEN (IF C(1, 128, 191) /\ C(2, 128, 191) /\ C(3, 128, 191) THEN 4 ELSE 0)
        ELSE IF b0 = 244
             THEN (IF C(1, 128, 143) /\ C(2, 128, 191) /\ C(3, 128, 191) THEN 4 ELSE 0)
        ELSE 0

RECURSIVE Utf8From(_, _)
Utf8From(d, i) ==
    IF i > Len(d) THEN TRUE
    ELSE LET w == Utf8Width(d, i)
         IN  w > 0 /\ Utf8From(d, i + w)

\* Whether the bytes are a valid UTF-8 text (String::from_utf8, read_to_string).
ValidUtf8(d) == Utf8From(d, 1)

\* ------------------------------------------------------------ the encoding

\* #[derive(SerBin)]: the variant index as a u16, then the fields in order:
\* the u32 count, then the String as a u64 length followed by its bytes.
SerializeBin(s) ==
    IF IsUnsynced(s)
    THEN ToLE(1, U16Bytes) \o s.missed \o ToLE(Len(s.rev), U64Bytes) \o s.rev
    ELSE ToLE(0, U16Bytes)

\* #[derive(DeBin)]: every read is bounds-checked and an unknown variant index
\* is an error; bytes after the record are not looked at.
DeserializeBin(d) ==
    LET o1 == U16Bytes
        o2 == o1 + U32Bytes
        o3 == o2 + U64Bytes
    IN  IF Len(d) < o1 THEN Err
        ELSE LET id == FromLE(SubSeq(d, 1, o1))
             IN  IF id = 0 THEN Ok(Synced)
                 ELSE IF id # 1 THEN Err
                 ELSE IF Len(d) < o2 THEN Err
                 ELSE IF Len(d) < o3 THEN Err
                 ELSE LET missed == SubSeq(d, o1 + 1, o2)
                          lenb   == SubSeq(d, o2 + 1, o3)
                      IN  \* a length of 2^24 or more is beyond any file modelled
                          IF \E i \in 4..U64Bytes : lenb[i] # 0 THEN Err
                          ELSE LET len == FromLE(SubSeq(lenb, 1, 3))
                               IN  IF o3 + len > Len(d) THEN Err
                                   ELSE LET rev == SubSeq(d, o3 + 1, o3 + len)
                                        IN  IF ValidUtf8(rev)
                                            THEN Ok(Unsynced(missed, rev))
                                            ELSE Err

\* ------------------------------------------------------------------ text

\* str::trim_end on the texts modelled here: trailing ASCII white space goes
\* (tab, line feed, vertical tab, form feed, carriage return, space).
RECURSIVE TrimEnd(_)
TrimEnd(t) ==
    IF t # <<>> /\ t[Len(t)] \in {9, 10, 11, 12, 13, 32}
    THEN TrimEnd(SubSeq(t, 1, Len(t) - 1))
    ELSE t

\* Whether a u32 given by its bytes is zero.
IsZero(b) == \A i \in 1..Len(b) : b[i] = 0

\* b divided by ten, on little-endian bytes: quotient bytes and remainder.
DivTen(b) ==
    LET RECURSIVE Rem(_)
        \* the remainder carried into byte i from the bytes above it
        Rem(i) == IF i > Len(b) THEN 0 ELSE (Rem(i + 1) * 256 + b[i]) % 10
    IN  [q |-> SubSeq([i \in 1..Len(b) |-> (Rem(i + 1) * 256 + b[i]) \div 10],
                      1, Len(b)),
         r |-> Rem(1)]

\* u32::to_string: the decimal digits, as ASCII bytes, without leading zeros.
RECURSIVE U32ToString(_)
U32ToString(b) ==
    LET d == DivTen(b)
    IN  (IF IsZero(d.q) THEN <<>> ELSE U32ToString(d.q)) \o <<48 + d.r>>

\* str::replace(t, "$", by): every "$" of t replaced.
RECURSIVE Replace(_, _)
Replace(t, by) ==
    IF t = <<>> THEN <<>>
    ELSE (IF Head(t) = 36 THEN by ELSE <<Head(t)>>) \o Replace(Tail(t), by)

\* The literals of main(): "synced", "unsynced (", ")" and "error".
StrSynced == <<115, 121, 110, 99, 101, 100>>

StrUnsyncedOpen == <<117, 110, 115, 121, 110, 99, 101, 100, 32, 40>>

StrClose == <<41>>

StrError == <<101, 114, 114, 111, 114>>

\* Option<String>
None == [some |-> FALSE]

Some(v) == [some |-> TRUE, val |-> v]

\* Slip: replacen(.., 1) for replace: only the first "$" is substituted.
DisplayFirstMarker(state, synced_message, unsynced_message) ==
    LET RECURSIVE ReplaceFirst(_, _)
        ReplaceFirst(t, by) ==
            IF t = <<>> THEN <<>>
            ELSE IF Head(t) = 36 THEN by \o Tail(t)
            ELSE <<Head(t)>> \o ReplaceFirst(Tail(t), by)
    IN  IF IsUnsynced(state)
        THEN IF unsynced_message.some
             THEN ReplaceFirst(unsynced_message.val, U32ToString(state.missed))
             ELSE StrUnsyncedOpen \o U32ToString(state.missed) \o StrClose
        ELSE IF synced_message.some THEN synced_message.val ELSE StrSynced

\* The status line of main() for a state and the two message options.
Display(state, synced_message, unsynced_message) ==
    IF IsUnsynced(state)
    THEN IF unsynced_message.some
         THEN Replace(unsynced_message.val, U32ToString(state.missed))
         ELSE StrUnsyncedOpen \o U32ToString(state.missed) \o StrClose
    ELSE IF synced_message.some THEN synced_message.val ELSE StrSynced

\* ------------------------------------------------------- the collaborators

\* What the HTTP GET of remote_system_revision can come to: send() fails, the
\* response is not a success, the body does not decode, or there is a body.
RemoteBodies == Revs \cup {Rev(1) \o <<10>>}

Responses ==
    {[sent |-> FALSE, success |-> FALSE, text |-> Err]}
    \cup {[sent |-> TRUE, success |-> FALSE, text |-> Ok(b)] : b \in RemoteBodies}
    \cup {[sent |-> TRUE, success |-> TRUE, text |-> Err]}
    \cup {[sent |-> TRUE, success |-> TRUE, text |-> Ok(b)] : b \in RemoteBodies}

\* Slip: the body is trimmed at its end like the output of the command.
RemoteSystemRevisionTrimmed(resp) ==
    IF ~resp.sent THEN Err
    ELSE IF ~resp.success THEN Err
    ELSE IF resp.text.ok THEN Ok(TrimEnd(resp.text.val))
    ELSE resp.text

\* fn remote_system_revision: the body as it came, or an error.
RemoteSystemRevision(resp) ==
    IF ~resp.sent THEN Err
    ELSE IF ~resp.success THEN Err
    ELSE resp.text

\* What running `nixos-version --revision` can come to: it cannot be spawned, or
\* it ran and left an exit status and its standard output (a revision and a line
\* feed, nothing at all when it failed, or bytes that are no UTF-8 text).
CommandOutputs ==
    {[spawned |-> FALSE, status |-> 1, stdout |-> <<>>]}
    \cup {[spawned |-> TRUE, status |-> 0, stdout |-> r \o <<10>>] : r \in Revs}
    \cup {[spawned |-> TRUE, status |-> 1, stdout |-> <<>>]}
    \cup {[spawned |-> TRUE, status |-> 0, stdout |-> <<255>>]}

\* fn current_system_revision: the exit status is not looked at.
CurrentSystemRevision(output) ==
    IF ~output.spawned THEN Err
    ELSE IF ~ValidUtf8(output.stdout) THEN Err
    ELSE Ok(TrimEnd(output.stdout))

\* ----------------------------------------------------------- the state file

NoFile == [exists |-> FALSE, bytes |-> <<>>]

FileOf(bytes) == [exists |-> TRUE, bytes |-> bytes]

\* fn load: read_to_string fails on a missing file and on bytes that are not
\* UTF-8; then the bytes of the text are decoded.
Load(f) ==
    IF ~f.exists THEN Err
    ELSE IF ~ValidUtf8(f.bytes) THEN Err
    ELSE DeserializeBin(f.bytes)

\* Where save() can fail: creating the directory, opening the file (the file is
\* then as it was), or writing (the file was truncated on opening and holds the
\* first `written` bytes, fewer than all of them).
SaveFaults(contents) ==
    {[at |-> "none", written |-> Len(contents)],
     [at |-> "create_dir", written |-> 0],
     [at |-> "open", written |-> 0]}
    \cup {[at |-> "write", written |-> k] :
             k \in {j \in 0..MaxTorn : j < Len(contents)}}

\* fn save: the directory and the file after it, and whether it returned Ok.
Save(state, dir, f, fault) ==
    LET contents == SerializeBin(state)
    IN  IF ~dir /\ fault.at = "create_dir"
        THEN [ok |-> FALSE, dir |-> FALSE, file |-> f]
        ELSE IF fault.at = "open"
        THEN [ok |-> FALSE, dir |-> TRUE, file |-> f]
        ELSE IF fault.at = "write"
        THEN [ok |-> FALSE, dir |-> TRUE,
              file |-> FileOf(SubSeq(contents, 1, fault.written))]
        ELSE [ok |-> TRUE, dir |-> TRUE, file |-> FileOf(contents)]

\* ------------------------------------------------------------ the transition

\* missed + 1: a build with overflow checks panics at u32::MAX, one without wraps.
AddOne(missed, overflow_checks) ==
    IF missed = U32Max /\ overflow_checks
    THEN [panic |-> TRUE, val |-> missed]
    ELSE [panic |-> FALSE, val |-> WrappingInc(missed)]

\* Variants of the match with one plausible slip each; the checks of the claims
\* below are run against them to see that each claim depends on the match.

\* Slip: the second arm forgets the + 1.
DetermineStateNoIncrement(state, remote_rev, current_rev, overflow_checks) ==
    LET is_unsynced == remote_rev # current_rev
    IN  IF ~IsUnsynced(state) /\ is_unsynced
        THEN [panic |-> FALSE, state |-> Unsynced(U32(1), remote_rev), save |-> TRUE]
        ELSE IF IsUnsynced(state) /\ is_unsynced /\ remote_rev # state.rev
        THEN LET sum == AddOne(state.missed, overflow_checks)
             IN  [panic |-> FALSE, state |-> Unsynced(state.missed, remote_rev),
                  save |-> TRUE]
        ELSE IF IsUnsynced(state) /\ ~is_unsynced
        THEN [panic |-> FALSE, state |-> Synced, save |-> TRUE]
        ELSE [panic |-> FALSE, state |-> state, save |-> FALSE]

\* Slip: the second arm counts every out-of-sync check, not only a new remote revision.
DetermineStateEveryCheck(state, remote_rev, current_rev, overflow_checks) ==
    LET is_unsynced == remote_rev # current_rev
    IN  IF ~IsUnsynced(state) /\ is_unsynced
        THEN [panic |-> FALSE, state |-> Unsynced(U32(1), remote_rev), save |-> TRUE]
        ELSE IF IsUnsynced(state) /\ is_unsynced
        THEN LET sum == AddOne(state.missed, overflow_checks)
             IN  [panic |-> sum.panic, state |-> Unsynced(sum.val, remote_rev),
                  save |-> TRUE]
        ELSE IF IsUnsynced(state) /\ ~is_unsynced
        THEN [panic |-> FALSE, state |-> Synced, save |-> TRUE]
        ELSE [panic |-> FALSE, state |-> state, save |-> FALSE]

\* Slip: the first arm stores the local revision instead of the remote one.
DetermineStateLocalRev(state, remote_rev, current_rev, overflow_checks) ==
    LET is_unsynced == remote_rev # current_rev
    IN  IF ~IsUnsynced(state) /\ is_unsynced
        THEN [panic |-> FALSE, state |-> Unsynced(U32(1), current_rev), save |-> TRUE]
        ELSE IF IsUnsynced(state) /\ is_unsynced /\ remote_rev # state.rev
        THEN LET sum == AddOne(state.missed, overflow_checks)
             IN  [panic |-> sum.panic, state |-> Unsynced(sum.val, remote_rev),
                  save |-> TRUE]
        ELSE IF IsUnsynced(state) /\ ~is_unsynced
        THEN [panic |-> FALSE, state |-> Synced, save |-> TRUE]
        ELSE [panic |-> FALSE, state |-> state, save |-> FALSE]

\* Slip: the third arm is missing: catching up does not reset the state.
DetermineStateNoReset(state, remote_rev, current_rev, overflow_checks) ==
    LET is_unsynced == remote_rev # current_rev
    IN  IF ~IsUnsynced(state) /\ is_unsynced
        THEN [panic |-> FALSE, state |-> Unsynced(U32(1), remote_rev), save |-> TRUE]
        ELSE IF IsUnsynced(state) /\ is_unsynced /\ remote_rev # state.rev
        THEN LET sum == AddOne(state.missed, overflow_checks)
             IN  [panic |-> sum.panic, state |-> Unsynced(sum.val, remote_rev),
                  save |-> TRUE]
        ELSE IF FALSE
        THEN [panic |-> FALSE, state |-> Synced, save |-> TRUE]
        ELSE [panic |-> FALSE, state |-> state, save |-> FALSE]

\* Slip: the last arm saves the unchanged state too.
DetermineStateAlwaysSave(state, remote_rev, current_rev, overflow_checks) ==
    LET is_unsynced == remote_rev # current_rev
    IN  IF ~IsUnsynced(state) /\ is_unsynced
        THEN [panic |-> FALSE, state |-> Unsynced(U32(1), remote_rev), save |-> TRUE]
        ELSE IF IsUnsynced(state) /\ is_unsynced /\ remote_rev # state.rev
        THEN LET sum == AddOne(state.missed, overflow_checks)
             IN  [panic |-> sum.panic, state |-> Unsynced(sum.val, remote_rev),
                  save |-> TRUE]
        ELSE IF IsUnsynced(state) /\ ~is_unsynced
        THEN [panic |-> FALSE, state |-> Synced, save |-> TRUE]
        ELSE [panic |-> FALSE, state |-> state, save |-> TRUE]

\* Slip: the first arm starts the count at zero.
DetermineStateFromZero(state, remote_rev, current_rev, overflow_checks) ==
    LET is_unsynced == remote_rev # current_rev
    IN  IF ~IsUnsynced(state) /\ is_unsynced
        THEN [panic |-> FALSE, state |-> Unsynced(U32Zero, remote_rev), save |-> TRUE]
        ELSE IF IsUnsynced(state) /\ is_unsynced /\ remote_rev # state.rev
        THEN LET sum == AddOne(state.missed, overflow_checks)
             IN  [panic |-> sum.panic, state |-> Unsynced(sum.val, remote_rev),
                  save |-> TRUE]
        ELSE IF IsUnsynced(state) /\ ~is_unsynced
        THEN [panic |-> FALSE, state |-> Synced, save |-> TRUE]
        ELSE [panic |-> FALSE, state |-> state, save |-> FALSE]

\* Slip: the arm that resets has lost its guard and comes before the arm that
\* counts, so the order of the arms decides.
DetermineStateResetFirst(state, remote_rev, current_rev, overflow_checks) ==
    LET is_unsynced == remote_rev # current_rev
    IN  IF ~IsUnsynced(state) /\ is_unsynced
        THEN [panic |-> FALSE, state |-> Unsynced(U32(1), remote_rev), save |-> TRUE]
        ELSE IF IsUnsynced(state)
        THEN [panic |-> FALSE, state |-> Synced, save |-> TRUE]
        ELSE [panic |-> FALSE, state |-> state, save |-> FALSE]

\* The match of determine_system_state: the successor of the loaded state, and
\* whether it is saved.
DetermineState(state, remote_rev, current_rev, overflow_checks) ==
    LET is_unsynced == remote_rev # current_rev
    IN  IF ~IsUnsynced(state) /\ is_unsynced
        THEN [panic |-> FALSE, state |-> Unsynced(U32(1), remote_rev), save |-> TRUE]
        ELSE IF IsUnsynced(state) /\ is_unsynced /\ remote_rev # state.rev
        THEN LET sum == AddOne(state.missed, overflow_checks)
             IN  [panic |-> sum.panic, state |-> Unsynced(sum.val, remote_rev),
                  save |-> TRUE]
        ELSE IF IsUnsynced(state) /\ ~is_unsynced
        THEN [panic |-> FALSE, state |-> Synced, save |-> TRUE]
        ELSE [panic |-> FALSE, state |-> state, save |-> FALSE]

\* ------------------------------------------------------------------ state

\* The processes that may run the tool.  Procs lists them all; SeqProcs is the
\* single periodic caller of the intended deployment.
Procs == {1, 2}

SeqProcs == {1}

\* The message options the command line may give (argh's Args).
SyncedMessages == {None, Some(<<111, 107>>)}

UnsyncedMessages == {None, Some(<<36, 33, 36>>)}

\* The options when the command line gives neither message.
NoArgs == [synced_message |-> None, unsynced_message |-> None]

\* What an invocation has received from its collaborators so far: the body of
\* the HTTP response and the standard output of the command, as they came.
NothingSeen == [body |-> <<>>, stdout |-> <<>>]

VARIABLES
    dirExists,    \* whether the state directory exists
    file,         \* the state file: whether it exists, and its bytes
    pc,           \* per process: where its invocation stands
    remote_rev,   \* per process: remote_rev of determine_system_state
    current_rev,  \* per process: current_rev of determine_system_state
    state,        \* per process: state of determine_system_state
    args,         \* per process: the message options main() printed with
    stdout,       \* per process: the lines main() printed to standard output
    exit,         \* per process: the exit status (-1 while running)
    \* observers: they record what happened and steer nothing
    loaded,       \* per process: the state load() gave this invocation
    saved,        \* per process: the states this invocation passed to save()
    preFile,      \* per process: the state file as the invocation found it
    steps,        \* per process: the steps this invocation has taken, in order
    faults,       \* per process: the steps of this invocation that returned Err
    seen,         \* per process: the response body and command output received
    cmdStatus,    \* per process: exit status of the local command (-1: not run)
    lastSaver,    \* the process whose save() wrote the file as it is (0: none)
    lastRemote,   \* remote revision of the latest invocation that returned Ok
    everOk,       \* whether any invocation has returned Ok
    chain         \* missed count the design expects after the latest invocation
                  \* of a run of out-of-sync invocations (0: the record is
                  \* Synced or absent and the run has not begun; -1: not tracked)

vars == <<dirExists, file, pc, remote_rev, current_rev, state, args, stdout, exit,
          loaded, saved, preFile, steps, faults, seen, cmdStatus, lastSaver,
          lastRemote, everOk, chain>>

\* Every process before its first invocation.
Idle ==
    /\ pc = [p \in Procs |-> "idle"]
    /\ remote_rev = [p \in Procs |-> <<>>]
    /\ current_rev = [p \in Procs |-> <<>>]
    /\ state = [p \in Procs |-> DefaultState]
    /\ args = [p \in Procs |-> NoArgs]
    /\ stdout = [p \in Procs |-> <<>>]
    /\ exit = [p \in Procs |-> -1]
    /\ loaded = [p \in Procs |-> DefaultState]
    /\ saved = [p \in Procs |-> <<>>]
    /\ steps = [p \in Procs |-> <<>>]
    /\ faults = [p \in Procs |-> <<>>]
    /\ seen = [p \in Procs |-> NothingSeen]
    /\ cmdStatus = [p \in Procs |-> -1]
    /\ lastSaver = 0
    /\ lastRemote = <<>>
    /\ everOk = FALSE

\* Before the tool has ever run there is no state directory and no state file.
Init ==
    /\ dirExists = FALSE
    /\ file = NoFile
    /\ preFile = [p \in Procs |-> NoFile]
    /\ chain = 0
    /\ Idle

\* The run of out-of-sync invocations after an invocation that returned Ok.
ChainAfterOk(remote, current, fileAfter) ==
    IF remote = current
    THEN IF ~fileAfter.exists \/ fileAfter.bytes = SerializeBin(Synced)
         THEN 0 ELSE -1
    ELSE IF chain = -1 THEN -1
    ELSE IF chain = 0 THEN 1
    ELSE IF remote = lastRemote THEN chain
    ELSE IF chain >= MaxChain THEN -1
    ELSE chain + 1

\* ---------------------------------------------------------------- actions

\* main() starts and determine_system_state asks for the remote revision.
RemoteRevision(p) ==
    /\ pc[p] \in {"idle", "done"}
    /\ \E resp \in Responses :
          LET r == RemoteSystemRevision(resp)
              body == IF resp.sent /\ resp.success /\ resp.text.ok
                      THEN resp.text.val ELSE <<>>
          IN  /\ remote_rev' = [remote_rev EXCEPT ![p] = IF r.ok THEN r.val ELSE <<>>]
              /\ pc' = [pc EXCEPT ![p] = IF r.ok THEN "local" ELSE "failed"]
              /\ faults' = [faults EXCEPT
                               ![p] = IF r.ok THEN <<>> ELSE <<"remote">>]
              /\ seen' = [seen EXCEPT ![p] = [body |-> body, stdout |-> <<>>]]
    /\ cmdStatus' = [cmdStatus EXCEPT ![p] = -1]
    /\ args' = [args EXCEPT ![p] = NoArgs]
    /\ stdout' = [stdout EXCEPT ![p] = <<>>]
    /\ exit' = [exit EXCEPT ![p] = -1]
    /\ preFile' = [preFile EXCEPT ![p] = file]
    /\ steps' = [steps EXCEPT ![p] = <<"remote">>]
    /\ UNCHANGED <<dirExists, file, current_rev, state, loaded, saved, lastSaver,
                   lastRemote, everOk, chain>>

\* Slip: the Err of current_system_revision is not returned with `?`; an empty
\* revision stands in for it.
CurrentRevisionUnwrapped(p) ==
    /\ pc[p] = "local"
    /\ \E output \in CommandOutputs :
          LET r == CurrentSystemRevision(output)
          IN  /\ current_rev' = [current_rev EXCEPT ![p] = IF r.ok THEN r.val ELSE <<>>]
              /\ cmdStatus' = [cmdStatus EXCEPT
                                  ![p] = IF output.spawned THEN output.status ELSE -1]
              /\ pc' = [pc EXCEPT ![p] = "load"]
              /\ faults' = [faults EXCEPT
                               ![p] = IF r.ok THEN @ ELSE Append(@, "local")]
              /\ seen' = [seen EXCEPT
                             ![p].stdout = IF output.spawned THEN output.stdout
                                           ELSE <<>>]
    /\ steps' = [steps EXCEPT ![p] = Append(@, "local")]
    /\ UNCHANGED <<dirExists, file, remote_rev, state, args, stdout, exit, loaded,
                   saved, preFile, lastSaver, lastRemote, everOk, chain>>

\* determine_system_state asks for the local revision.
CurrentRevision(p) ==
    /\ pc[p] = "local"
    /\ \E output \in CommandOutputs :
          LET r == CurrentSystemRevision(output)
          IN  /\ current_rev' = [current_rev EXCEPT ![p] = IF r.ok THEN r.val ELSE <<>>]
              /\ cmdStatus' = [cmdStatus EXCEPT
                                  ![p] = IF output.spawned THEN output.status ELSE -1]
              /\ pc' = [pc EXCEPT ![p] = IF r.ok THEN "load" ELSE "failed"]
              /\ faults' = [faults EXCEPT
                               ![p] = IF r.ok THEN @ ELSE Append(@, "local")]
              /\ seen' = [seen EXCEPT
                             ![p].stdout = IF output.spawned THEN output.stdout
                                           ELSE <<>>]
    /\ steps' = [steps EXCEPT ![p] = Append(@, "local")]
    /\ UNCHANGED <<dirExists, file, remote_rev, state, args, stdout, exit, loaded,
                   saved, preFile, lastSaver, lastRemote, everOk, chain>>

\* Slip: the Err of load() is returned with `?` instead of falling back to the
\* default state.
LoadStatePropagated(p) ==
    /\ pc[p] = "load"
    /\ state' = [state EXCEPT ![p] = UnwrapOrDefault(Load(file))]
    /\ loaded' = [loaded EXCEPT ![p] = UnwrapOrDefault(Load(file))]
    /\ pc' = [pc EXCEPT ![p] = IF Load(file).ok THEN "match" ELSE "failed"]
    /\ steps' = [steps EXCEPT ![p] = Append(@, "load")]
    /\ UNCHANGED <<dirExists, file, remote_rev, current_rev, args, stdout, exit,
                   saved, preFile, faults, seen, cmdStatus, lastSaver, lastRemote,
                   everOk, chain>>

\* Slip: the state is loaded before the local revision is asked for, and the
\* match goes ahead without it.
LoadStateEarly(p) ==
    /\ pc[p] \in {"local", "load"}
    /\ state' = [state EXCEPT ![p] = UnwrapOrDefault(Load(file))]
    /\ loaded' = [loaded EXCEPT ![p] = UnwrapOrDefault(Load(file))]
    /\ pc' = [pc EXCEPT ![p] = "match"]
    /\ steps' = [steps EXCEPT ![p] = Append(@, "load")]
    /\ UNCHANGED <<dirExists, file, remote_rev, current_rev, args, stdout, exit,
                   saved, preFile, faults, seen, cmdStatus, lastSaver, lastRemote,
                   everOk, chain>>

\* let mut state = Self::load().unwrap_or_default();
LoadState(p) ==
    /\ pc[p] = "load"
    /\ state' = [state EXCEPT ![p] = UnwrapOrDefault(Load(file))]
    /\ loaded' = [loaded EXCEPT ![p] = UnwrapOrDefault(Load(file))]
    /\ pc' = [pc EXCEPT ![p] = "match"]
    /\ steps' = [steps EXCEPT ![p] = Append(@, "load")]
    /\ UNCHANGED <<dirExists, file, remote_rev, current_rev, args, stdout, exit,
                   saved, preFile, faults, seen, cmdStatus, lastSaver, lastRemote,
                   everOk, chain>>

\* The process ends: what determine_system_state held is gone.
Dropped(p) ==
    /\ remote_rev' = [remote_rev EXCEPT ![p] = <<>>]
    /\ current_rev' = [current_rev EXCEPT ![p] = <<>>]
    /\ state' = [state EXCEPT ![p] = DefaultState]
    /\ loaded' = [loaded EXCEPT ![p] = DefaultState]
    /\ saved' = [saved EXCEPT ![p] = <<>>]
    /\ seen' = [seen EXCEPT ![p] = NothingSeen]

\* The match of determine_system_state on the state `matched`, with the save()
\* of the arm taken; `save_checked` is whether the Err of save() is returned
\* (state.save()?).  A panic ends the process at once: nothing is printed to
\* standard output and the exit status is 101.
TransitionWith(p, matched, save_checked) ==
    /\ pc[p] = "match"
    /\ \E overflow_checks \in BOOLEAN :
          LET t == DetermineState(matched, remote_rev[p], current_rev[p],
                                  overflow_checks)
          IN  IF t.panic
              THEN /\ pc' = [pc EXCEPT ![p] = "done"]
                   /\ exit' = [exit EXCEPT ![p] = 101]
                   /\ steps' = [steps EXCEPT ![p] = Append(@, "match")]
                   /\ chain' = -1
                   /\ Dropped(p)
                   /\ UNCHANGED <<dirExists, file, faults, lastSaver, lastRemote,
                                  everOk>>
              ELSE IF ~t.save
              THEN /\ pc' = [pc EXCEPT ![p] = "ok"]
                   /\ state' = [state EXCEPT ![p] = t.state]
                   /\ steps' = [steps EXCEPT ![p] = Append(@, "match")]
                   /\ lastRemote' = remote_rev[p]
                   /\ everOk' = TRUE
                   /\ chain' = ChainAfterOk(remote_rev[p], current_rev[p], file)
                   /\ UNCHANGED <<dirExists, file, saved, exit, remote_rev,
                                  current_rev, loaded, faults, seen, lastSaver>>
              ELSE \E fault \in SaveFaults(SerializeBin(t.state)) :
                      LET s == Save(t.state, dirExists, file, fault)
                          returned_ok == s.ok \/ ~save_checked
                      IN  /\ state' = [state EXCEPT ![p] = t.state]
                          /\ saved' = [saved EXCEPT ![p] = Append(@, t.state)]
                          /\ steps' = [steps EXCEPT
                                          ![p] = Append(Append(@, "match"), "save")]
                          /\ faults' = [faults EXCEPT
                                           ![p] = IF s.ok THEN @
                                                  ELSE Append(@, "save")]
                          /\ dirExists' = s.dir
                          /\ file' = s.file
                          /\ lastSaver' = IF s.ok THEN p
                                          ELSE IF s.file = file THEN lastSaver
                                          ELSE 0
                          /\ pc' = [pc EXCEPT
                                       ![p] = IF returned_ok THEN "ok" ELSE "failed"]
                          /\ lastRemote' = IF returned_ok THEN remote_rev[p]
                                           ELSE lastRemote
                          /\ everOk' = (everOk \/ returned_ok)
                          /\ chain' = IF s.ok
                                      THEN ChainAfterOk(remote_rev[p], current_rev[p],
                                                        s.file)
                                      ELSE IF s.file = file THEN chain ELSE -1
                          /\ UNCHANGED <<exit, remote_rev, current_rev, loaded, seen>>
    /\ UNCHANGED <<args, stdout, preFile, cmdStatus>>

\* Slip: the result of save() is dropped instead of returned.
TransitionUnchecked(p) == TransitionWith(p, state[p], FALSE)

\* A read-modify-write under a lock: the match is made on the state file as it
\* is when the save is due, not on what this invocation loaded.
TransitionLocked(p) == TransitionWith(p, UnwrapOrDefault(Load(file)), TRUE)

\* The match of determine_system_state on the state it loaded; every
\* state.save() is followed by `?`.
Transition(p) == TransitionWith(p, state[p], TRUE)

\* main() on Ok(state): the status line, exit status 0.  The message options
\* were parsed when main() started; this is the only place that reads them.
PrintStatus(p) ==
    /\ pc[p] = "ok"
    /\ \E synced_message \in SyncedMessages, unsynced_message \in UnsyncedMessages :
          /\ args' = [args EXCEPT
                         ![p] = [synced_message |-> synced_message,
                                 unsynced_message |-> unsynced_message]]
          /\ stdout' = [stdout EXCEPT
                           ![p] = Append(@, Display(state[p], synced_message,
                                                    unsynced_message))]
    /\ exit' = [exit EXCEPT ![p] = 0]
    /\ pc' = [pc EXCEPT ![p] = "done"]
    /\ Dropped(p)
    /\ UNCHANGED <<dirExists, file, preFile, steps, faults, cmdStatus, lastSaver,
                   lastRemote, everOk, chain>>

\* main() on Err(err): the line "error", then a non-zero exit status.
PrintError(p) ==
    /\ pc[p] = "failed"
    /\ stdout' = [stdout EXCEPT ![p] = Append(@, StrError)]
    /\ exit' = [exit EXCEPT ![p] = 1]
    /\ pc' = [pc EXCEPT ![p] = "done"]
    /\ Dropped(p)
    /\ UNCHANGED <<dirExists, file, args, preFile, steps, faults, cmdStatus,
                   lastSaver, lastRemote, everOk, chain>>

Step(p) ==
    \/ RemoteRevision(p)
    \/ CurrentRevision(p)
    \/ LoadState(p)
    \/ Transition(p)
    \/ PrintStatus(p)
    \/ PrintError(p)

\* One caller, one invocation after the other.
Next == \E p \in SeqProcs : Step(p)

Spec == Init /\ [][Next]_vars

\* ------------------------------------------------- two callers at once

\* The records the state file may hold when two invocations start together.
ConcRecords == {Synced} \cup {Unsynced(U32(1), r) : r \in Revs}

\* The state file is absent or holds a record, and no invocation has begun.
InitConc ==
    /\ \E f \in {NoFile} \cup {FileOf(SerializeBin(s)) : s \in ConcRecords} :
          /\ file = f
          /\ dirExists = f.exists
    /\ preFile = [p \in Procs |-> NoFile]
    /\ chain = -1
    /\ Idle

\* Two processes run one invocation each; nothing orders their steps, as the
\* code takes no lock on the state file.
NextConc ==
    \E p \in Procs :
        \/ pc[p] = "idle" /\ RemoteRevision(p)
        \/ CurrentRevision(p)
        \/ LoadState(p)
        \/ Transition(p)
        \/ PrintStatus(p)
        \/ PrintError(p)

SpecConc == InitConc /\ [][NextConc]_vars

\* ------------------------------------------------- the match on its own

\* The counts the match is tried on: small ones, those around the top bit of the
\* low byte, and the two largest of a u32.
MatchCounts ==
    {U32(1), U32(2), U32(127), U32(128), <<254, 255, 255, 255>>, U32Max}

\* Every value of UpdateState with one of those counts.
MatchStates ==
    {Synced} \cup {Unsynced(c, r) : c \in MatchCounts, r \in Revs}

\* An invocation at the match: both revisions were had and `state` holds a value
\* of UpdateState.  The match reads nothing but these three.
InitMatch ==
    /\ dirExists = FALSE
    /\ file = NoFile
    /\ preFile = [p \in Procs |-> NoFile]
    /\ chain = -1
    /\ \E s \in MatchStates, remote \in RemoteBodies, current \in Revs :
          /\ pc = [p \in Procs |-> IF p \in SeqProcs THEN "match" ELSE "idle"]
          /\ remote_rev = [p \in Procs |-> IF p \in SeqProcs THEN remote ELSE <<>>]
          /\ current_rev = [p \in Procs |-> IF p \in SeqProcs THEN current ELSE <<>>]
          /\ state = [p \in Procs |-> IF p \in SeqProcs THEN s ELSE DefaultState]
          /\ loaded = state
          /\ steps = [p \in Procs |-> IF p \in SeqProcs
                                      THEN <<"remote", "local", "load">> ELSE <<>>]
          /\ seen = [p \in Procs |-> IF p \in SeqProcs
                                     THEN [body |-> remote, stdout |-> current \o <<10>>]
                                     ELSE NothingSeen]
    /\ args = [p \in Procs |-> NoArgs]
    /\ stdout = [p \in Procs |-> <<>>]
    /\ exit = [p \in Procs |-> -1]
    /\ saved = [p \in Procs |-> <<>>]
    /\ faults = [p \in Procs |-> <<>>]
    /\ cmdStatus = [p \in Procs |-> 0]
    /\ lastSaver = 0
    /\ lastRemote = <<>>
    /\ everOk = FALSE

\* The rest of the invocation from the match on.
NextMatch ==
    \E p \in SeqProcs :
        \/ Transition(p)
        \/ PrintStatus(p)
        \/ PrintError(p)

SpecMatch == InitMatch /\ [][NextMatch]_vars

\* ------------------------------------------------------------- the claims

\* The match has run in p's invocation, and the invocation has not ended.
DidMatch(p) == pc[p] \in {"ok", "failed"} /\ Len(steps[p]) >= 4

\* The state file holds exactly the encoding of s.
FileHolds(s) == file = FileOf(SerializeBin(s))

\* C1: when the loaded record is Unsynced(n, last), remote != local and
\* remote != last, the match yields Unsynced(n + 1, remote) without wrapping,
\* save() is called once, with that record, and once the invocation has
\* returned Ok the state file holds it.
C1_IncrementOnNewRemote ==
    \A p \in SeqProcs :
        (/\ DidMatch(p)
         /\ IsUnsynced(loaded[p])
         /\ remote_rev[p] # current_rev[p]
         /\ remote_rev[p] # loaded[p].rev)
        => LET next == Unsynced(WrappingInc(loaded[p].missed), remote_rev[p])
           IN  /\ loaded[p].missed # U32Max
               /\ state[p] = next
               /\ saved[p] = <<next>>
               /\ (pc[p] = "ok" => FileHolds(next))

C1_Witness ==
    /\ pc[1] = "ok"
    /\ loaded[1] = Unsynced(U32(2), Rev(1))
    /\ remote_rev[1] = Rev(2)
    /\ current_rev[1] = Rev(1)
    /\ state[1] = Unsynced(U32(3), Rev(2))
    /\ FileHolds(Unsynced(U32(3), Rev(2)))

\* C2: when the loaded record is Unsynced(n, last), remote != local and
\* remote = last, the invocation returns Ok with the same record, save() is not
\* called, and the state file and its directory are as the invocation found
\* them.
C2_UnchangedOnSameRemote ==
    \A p \in SeqProcs :
        (/\ DidMatch(p)
         /\ IsUnsynced(loaded[p])
         /\ remote_rev[p] # current_rev[p]
         /\ remote_rev[p] = loaded[p].rev)
        => /\ pc[p] = "ok"
           /\ state[p] = loaded[p]
           /\ saved[p] = <<>>
           /\ steps[p] = <<"remote", "local", "load", "match">>
           /\ file = preFile[p]

C2_Witness ==
    /\ pc[1] = "ok"
    /\ loaded[1] = Unsynced(U32(2), Rev(2))
    /\ remote_rev[1] = Rev(2)
    /\ current_rev[1] = Rev(1)
    /\ state[1] = Unsynced(U32(2), Rev(2))
    /\ saved[1] = <<>>
    /\ FileHolds(Unsynced(U32(2), Rev(2)))

\* C3: when the loaded record is Synced (the file held Synced, was missing or
\* could not be read or decoded) and remote != local, the match yields
\* Unsynced(1, remote), save() is called once, with that record, and once the
\* invocation has returned Ok the state file holds it.
C3_FirstMiss ==
    \A p \in SeqProcs :
        (/\ DidMatch(p)
         /\ ~IsUnsynced(loaded[p])
         /\ remote_rev[p] # current_rev[p])
        => LET next == Unsynced(U32(1), remote_rev[p])
           IN  /\ state[p] = next
               /\ saved[p] = <<next>>
               /\ (pc[p] = "ok" => FileHolds(next))

C3_Witness ==
    /\ pc[1] = "ok"
    /\ preFile[1] = NoFile
    /\ loaded[1] = Synced
    /\ remote_rev[1] = Rev(2)
    /\ current_rev[1] = Rev(1)
    /\ FileHolds(Unsynced(U32(1), Rev(2)))

\* C4: when the loaded record is Unsynced(n, last) and remote = local, the match
\* yields Synced whatever n and last are, save() is called once, with Synced, and
\* once the invocation has returned Ok the state file holds Synced.
C4_ResetOnCatchUp ==
    \A p \in SeqProcs :
        (/\ DidMatch(p)
         /\ IsUnsynced(loaded[p])
         /\ remote_rev[p] = current_rev[p])
        => /\ state[p] = Synced
           /\ saved[p] = <<Synced>>
           /\ (pc[p] = "ok" => FileHolds(Synced))

C4_Witness ==
    /\ pc[1] = "ok"
    /\ loaded[1] = Unsynced(U32(3), Rev(1))
    /\ remote_rev[1] = Rev(2)
    /\ current_rev[1] = Rev(2)
    /\ state[1] = Synced
    /\ FileHolds(Synced)

\* C5: when the loaded record is Synced and remote = local, the invocation
\* returns Ok with Synced, save() is not called, and the state file is as the
\* invocation found it: a missing file stays missing.
C5_SyncedStaysUnwritten ==
    \A p \in SeqProcs :
        (/\ DidMatch(p)
         /\ ~IsUnsynced(loaded[p])
         /\ remote_rev[p] = current_rev[p])
        => /\ pc[p] = "ok"
           /\ state[p] = Synced
           /\ saved[p] = <<>>
           /\ steps[p] = <<"remote", "local", "load", "match">>
           /\ file = preFile[p]
           /\ (~preFile[p].exists => ~file.exists)

C5_Witness ==
    /\ pc[1] = "ok"
    /\ preFile[1] = NoFile
    /\ file = NoFile
    /\ ~dirExists
    /\ loaded[1] = Synced
    /\ remote_rev[1] = Rev(1)
    /\ current_rev[1] = Rev(1)
    /\ state[1] = Synced

\* C6: a load() that follows a successful save(x), with the file as save() left
\* it, returns x.
C6_RoundTrip ==
    \A p \in SeqProcs :
        (pc[p] = "ok" /\ saved[p] # <<>>) => Load(file) = Ok(saved[p][1])

\* The count of an Unsynced record is at least one.
CountAtLeastOne(s) == IsUnsynced(s) => ~IsZero(s.missed)

\* The record the bytes of the state file stand for, when they stand for one.
Persisted == IF file.exists THEN DeserializeBin(file.bytes) ELSE Err

\* C7: from an absent state file, whatever invocations succeed or fail, every
\* Unsynced record that the state file holds, that load() gives, that is passed
\* to save() or that determine_system_state holds has a count of at least one.
C7_CountNeverZero ==
    /\ Persisted.ok => CountAtLeastOne(Persisted.val)
    /\ \A p \in SeqProcs :
          /\ CountAtLeastOne(state[p])
          /\ CountAtLeastOne(loaded[p])
          /\ CountAtLeastOne(UnwrapOrDefault(Load(file)))
          /\ \A i \in 1..Len(saved[p]) : CountAtLeastOne(saved[p][i])

C7_Witness ==
    /\ pc[1] = "ok"
    /\ state[1] = Unsynced(U32(1), Rev(1))
    /\ saved[1] = <<Unsynced(U32(1), Rev(1))>>
    /\ Persisted = Ok(Unsynced(U32(1), Rev(1)))
    /\ preFile[1].exists
    /\ ~Load(preFile[1]).ok

\* C8: between invocations, an Unsynced record in the state file carries the
\* remote revision that the latest invocation that returned Ok observed.
C8_LastSeenIsLatestRemote ==
    (/\ \A p \in SeqProcs : pc[p] \in {"idle", "done"}
     /\ everOk
     /\ Persisted.ok
     /\ IsUnsynced(Persisted.val))
    => Persisted.val.rev = lastRemote

\* C9: in a run of invocations that return Ok with remote != local, begun at a
\* Synced or absent record, the k-th invocation loads the count the (k-1)-th
\* returned and returns one plus the number of changes of the remote revision
\* so far (chain).
C9_CountIsChangesPlusOne ==
    \A p \in SeqProcs :
        /\ (pc[p] = "match" /\ chain >= 1 /\ remote_rev[p] # current_rev[p])
           => loaded[p] = Unsynced(U32(chain), lastRemote)
        /\ (pc[p] = "ok" /\ chain >= 1)
           => state[p] = Unsynced(U32(chain), remote_rev[p])

\* C10: when the local-revision command ran and exited with a non-zero status,
\* the invocation takes the error path: it does not go on to load or save, the
\* state file is as the invocation found it, and the only line printed is
\* "error", with a non-zero exit status.
C10_CommandFailurePropagates ==
    \A p \in SeqProcs :
        cmdStatus[p] > 0
        => /\ pc[p] \in {"failed", "done"}
           /\ file = preFile[p]
           /\ (pc[p] = "done" => stdout[p] = <<StrError>> /\ exit[p] # 0)

\* Whether a step is among those an invocation has taken.
Took(p, step) == \E i \in 1..Len(steps[p]) : steps[p][i] = step

C12_LoadFailureIsSynced ==
    \A p \in SeqProcs :
        (Took(p, "load") /\ (~Load(preFile[p]).ok \/ Load(preFile[p]) = Ok(Synced)))
        => /\ pc[p] = "failed" => faults[p] # <<>>
           /\ pc[p] = "done" => (exit[p] # 101 /\ (faults[p] = <<>> => exit[p] = 0))
           /\ pc[p] \in {"match", "ok", "failed"} => loaded[p] = Synced
           /\ DidMatch(p)
              => IF remote_rev[p] # current_rev[p]
                 THEN /\ state[p] = Unsynced(U32(1), remote_rev[p])
                      /\ saved[p] = <<state[p]>>
                 ELSE /\ state[p] = Synced
                      /\ saved[p] = <<>>
                      /\ file = preFile[p]

\* An invocation found a state file that is there but cannot be loaded, and
\* returned the first miss.
C12_Witness ==
    \E p \in SeqProcs :
        /\ pc[p] = "ok"
        /\ preFile[p].exists
        /\ ~Load(preFile[p]).ok
        /\ state[p] = Unsynced(U32(1), remote_rev[p])
        /\ FileHolds(state[p])

RECURSIVE Decimal(_)
Decimal(n) == (IF n < 10 THEN <<>> ELSE Decimal(n \div 10)) \o <<48 + (n % 10)>>

\* The line the specification gives for a record and the message options: the
\* custom message character by character, each "$" giving way to the digits.
StatusLine(s, a) ==
    LET digits == Decimal(FromLE(s.missed))
        RECURSIVE Subst(_)
        Subst(t) ==
            IF t = <<>> THEN <<>>
            ELSE (IF t[1] = 36 THEN digits ELSE <<t[1]>>) \o Subst(SubSeq(t, 2, Len(t)))
    IN  IF ~IsUnsynced(s)
        THEN IF a.synced_message = None THEN StrSynced ELSE a.synced_message.val
        ELSE IF a.unsynced_message = None
        THEN StrUnsyncedOpen \o digits \o StrClose
        ELSE Subst(a.unsynced_message.val)

\* C14: the line printed for a returned record is "synced" for Synced and
\* "unsynced (n)" with n in decimal for Unsynced(n, _) by default; with a custom
\* message it is that message with every "$" replaced by n in decimal and every
\* other character left as it is.
C14_StatusLine ==
    [][\A p \in SeqProcs :
          (pc[p] = "ok" /\ pc'[p] = "done")
          => stdout'[p] = <<StatusLine(state[p], args'[p])>>]_vars

\* A three-digit count was printed through a message with two markers.
C14_Witness ==
    \E p \in SeqProcs :
        /\ pc[p] = "done"
        /\ args[p].unsynced_message = Some(<<36, 33, 36>>)
        /\ stdout[p] = <<<<49, 50, 55, 33, 49, 50, 55>>>>

\* The order of the steps of determine_system_state.
StepOrder == <<"remote", "local", "load", "match", "save">>

\* C15: within an invocation the steps come in the order remote read, local
\* read, load, match, save, each at most once: the load never comes before
\* either revision read and there is never more than one save.
C15_StepOrder ==
    \A p \in SeqProcs :
        /\ Len(steps[p]) <= Len(StepOrder)
        /\ steps[p] = SubSeq(StepOrder, 1, Len(steps[p]))
        /\ Len(saved[p]) <= 1

\* An invocation has gone through all five steps.
C15_Witness ==
    \E p \in SeqProcs :
        /\ steps[p] = StepOrder
        /\ Len(saved[p]) = 1
        /\ pc[p] = "ok"

C17_ExactComparison ==
    \A p \in SeqProcs :
        /\ pc[p] \in {"match", "ok"}
           => /\ remote_rev[p] = seen[p].body
              /\ current_rev[p] = TrimEnd(seen[p].stdout)
        /\ DidMatch(p)
           => (state[p] = Synced <=> seen[p].body = TrimEnd(seen[p].stdout))

\* The body and the command's output were the same bytes, line feed included,
\* and the invocation returned the first miss with the body untrimmed.
C17_Witness ==
    \E p \in SeqProcs :
        /\ pc[p] = "ok"
        /\ seen[p].body = Rev(1) \o <<10>>
        /\ seen[p].stdout = seen[p].body
        /\ loaded[p] = Synced
        /\ state[p] = Unsynced(U32(1), Rev(1) \o <<10>>)

\* C19: in a sequence of invocations one after the other from an absent state
\* file, after each invocation that returned Ok the record the next invocation
\* would load (the fallback included) is Synced exactly when that invocation
\* saw remote = local.
C19_LoadedRecordTracksSync ==
    \A p \in SeqProcs :
        pc[p] = "ok"
        => (UnwrapOrDefault(Load(file)) = Synced <=> remote_rev[p] = current_rev[p])

\* The rows of the transition table, as conditions on the previous record,
\* is_unsynced and whether the remote revision is the one last seen.
TableRows == 1..5

RowApplies(row, previous, is_unsynced, same_as_last) ==
    CASE row = 1 -> ~IsUnsynced(previous) /\ is_unsynced
      [] row = 2 -> IsUnsynced(previous) /\ is_unsynced /\ ~same_as_last
      [] row = 3 -> IsUnsynced(previous) /\ ~is_unsynced
      [] row = 4 -> ~IsUnsynced(previous) /\ ~is_unsynced
      [] row = 5 -> IsUnsynced(previous) /\ is_unsynced /\ same_as_last

\* The new record of a row; the count of row 2 is small enough here to add to.
RowResult(row, previous, remote) ==
    CASE row = 1 -> Unsynced(U32(1), remote)
      [] row = 2 -> Unsynced(U32(FromLE(previous.missed) + 1), remote)
      [] row = 3 -> Synced
      [] row = 4 -> Synced
      [] row = 5 -> previous

\* C20: for every match made, exactly one row of the table applies, the record
\* returned is that row's (so no order of evaluation gives another), and a
\* save was made exactly when the record returned differs from the one loaded.
C20_OneRowApplies ==
    \A p \in SeqProcs :
        DidMatch(p)
        => LET is_unsynced == remote_rev[p] # current_rev[p]
               same_as_last == IsUnsynced(loaded[p]) /\ remote_rev[p] = loaded[p].rev
               rows == {row \in TableRows :
                           RowApplies(row, loaded[p], is_unsynced, same_as_last)}
           IN  /\ Cardinality(rows) = 1
               /\ \A row \in rows : state[p] = RowResult(row, loaded[p], remote_rev[p])
               /\ (saved[p] # <<>>) <=> (state[p] # loaded[p])

\* The fifth row was taken: the previous record was kept and nothing was saved.
C20_Witness ==
    \E p \in SeqProcs :
        /\ pc[p] = "ok"
        /\ IsUnsynced(loaded[p])
        /\ remote_rev[p] # current_rev[p]
        /\ remote_rev[p] = loaded[p].rev
        /\ state[p] = loaded[p]
        /\ saved[p] = <<>>
        /\ steps[p] = <<"remote", "local", "load", "match">>

\* C18: with two invocations running at once and no lock, each one that saves
\* saves the successor of the record it loaded itself, whatever the other has
\* written since, and the state file holds the record of the invocation whose
\* save wrote it last.
C18_LastSaveWins ==
    /\ \A p \in Procs :
          (pc[p] = "ok" /\ saved[p] # <<>>)
          => saved[p] = <<DetermineState(loaded[p], remote_rev[p], current_rev[p],
                                         TRUE).state>>
    /\ \A p \in Procs :
          (lastSaver = p /\ pc[p] = "ok")
          => /\ FileHolds(state[p])
             /\ saved[p] = <<state[p]>>

\* Both invocations loaded Unsynced(1, a) before either saved, each saw a new
\* remote revision of its own, and each saved the count 2: the file holds 2
\* after two counted updates.
C18_Witness ==
    /\ \A p \in Procs :
          /\ pc[p] = "ok"
          /\ loaded[p] = Unsynced(U32(1), Rev(1))
          /\ preFile[p] = FileOf(SerializeBin(Unsynced(U32(1), Rev(1))))
          /\ saved[p] = <<Unsynced(U32(2), remote_rev[p])>>
    /\ remote_rev[1] # remote_rev[2]
    /\ lastSaver \in Procs
    /\ FileHolds(Unsynced(U32(2), remote_rev[lastSaver]))
====
